---- MODULE Spec2Model ----
(***************************************************************************)
(* The invoice server actions of app/lib/actions.ts (createInvoice,        *)
(* updateInvoice, deleteInvoice, authenticate) together with the           *)
(* credentials provider of auth.ts, as a state machine.                    *)
(*                                                                         *)
(* Strings whose characters matter (the amount field, e-mail addresses,    *)
(* passwords) are sequences of one-character strings; strings that are     *)
(* only compared for equality are TLA+ strings.  JavaScript numbers are    *)
(* IEEE-754 doubles: a sign, a 53-bit significand and an exponent.         *)
(***************************************************************************)
EXTENDS Integers, Sequences, FiniteSets, TLC

VARIABLES invoices, nextId, now, calls

vars == <<invoices, nextId, now, calls>>

-----------------------------------------------------------------------------
(* Bounds of the model.                                                    *)

\* last instant of the clock
MaxNow == 2
\* rows the store holds when the program starts
NumSeed == 2
\* ticks of the clock in one calendar day
TicksPerDay == 2
\* ids the store can have assigned: the seeded rows' and one more
MaxId == NumSeed + 1

-----------------------------------------------------------------------------
(* JavaScript numbers.                                                     *)

\* bits of an IEEE-754 double's significand
MantBits == 53

NaN == [nan |-> TRUE, neg |-> FALSE, mant |-> <<>>, exp |-> 0]
Zero(neg) == [nan |-> FALSE, neg |-> neg, mant |-> <<>>, exp |-> 0]

Last(s) == s[Len(s)]
Front(s) == SubSeq(s, 1, Len(s) - 1)

RECURSIVE Pow2(_)
Pow2(k) == IF k = 0 THEN 1 ELSE 2 * Pow2(k - 1)

\* n as width binary digits, most significant first
Bits(n, width) == [i \in 1..width |-> (n \div Pow2(width - i)) % 2]

\* the binary digits of a natural number below 2^30, without leading zeros
IntBits(n) == Bits(n, CHOOSE k \in 0..30 : n < Pow2(k) /\ (k = 0 \/ Pow2(k - 1) <= n))

\* the natural number a sequence of binary digits denotes
RECURSIVE BitsInt(_)
BitsInt(bits) ==
    IF bits = <<>> THEN 0 ELSE 2 * BitsInt(Front(bits)) + Last(bits)

\* binary digits are produced and consumed ChunkBits at a time
ChunkBits == 8

\* the next chunks * ChunkBits binary digits of the fraction r/d (0 <= r < d)
RECURSIVE FracBits(_, _, _)
FracBits(r, d, chunks) ==
    IF chunks = 0 THEN <<>>
    ELSE LET t == r * Pow2(ChunkBits)
         IN  Bits(t \div d, ChunkBits) \o FracBits(t % d, d, chunks - 1)

\* the remainder left after those digits
RECURSIVE FracRem(_, _, _)
FracRem(r, d, chunks) ==
    IF chunks = 0 THEN r
    ELSE FracRem((r * Pow2(ChunkBits)) % d, d, chunks - 1)

\* the zero digits that open the binary expansion of r/d (0 < r < d)
RECURSIVE LeadZeros(_, _)
LeadZeros(r, d) == IF 2 * r >= d THEN 0 ELSE 1 + LeadZeros(2 * r, d)

\* a sequence of binary digits plus one
IncBits(bits) ==
    LET zeros == {i \in 1..Len(bits) : bits[i] = 0}
    IN  IF zeros = {} THEN <<1>> \o [i \in 1..Len(bits) |-> 0]
        ELSE LET j == CHOOSE i \in zeros : \A k \in zeros : k <= i
             IN  [i \in 1..Len(bits) |->
                     IF i < j THEN bits[i] ELSE IF i = j THEN 1 ELSE 0]

AnyOne(bits) == \E i \in 1..Len(bits) : bits[i] = 1

\* round-to-nearest, ties-to-even, of the positive value whose binary digits
\* are bits (first digit 1, of weight 2^exp), sticky telling of a non-zero
\* tail beyond them
RoundNearestEven(neg, bits, sticky, exp) ==
    IF Len(bits) <= MantBits
    THEN [nan |-> FALSE, neg |-> neg,
          mant |-> bits \o [i \in 1..(MantBits - Len(bits)) |-> 0], exp |-> exp]
    ELSE LET kept == SubSeq(bits, 1, MantBits)
             guard == bits[MantBits + 1]
             tail == sticky \/ AnyOne(SubSeq(bits, MantBits + 2, Len(bits)))
             up == guard = 1 /\ (tail \/ kept[MantBits] = 1)
             inc == IncBits(kept)
         IN  IF ~up THEN [nan |-> FALSE, neg |-> neg, mant |-> kept, exp |-> exp]
             ELSE IF Len(inc) > MantBits
             THEN [nan |-> FALSE, neg |-> neg, mant |-> Front(inc), exp |-> exp + 1]
             ELSE [nan |-> FALSE, neg |-> neg, mant |-> inc, exp |-> exp]

\* chunks of fraction digits that give a significand and its rounding digit
FracChunks == (MantBits + 1 + ChunkBits - 1) \div ChunkBits

\* the double nearest to the rational n/d (0 <= n, 0 < d, d * 2^ChunkBits
\* within TLC's integers)
ToDouble(neg, n, d) ==
    IF n = 0 THEN Zero(neg)
    ELSE LET q == n \div d
             r == n % d
         IN  IF q > 0
             THEN LET ib == IntBits(q)
                  IN  RoundNearestEven(neg, ib \o FracBits(r, d, FracChunks),
                                       FracRem(r, d, FracChunks) # 0, Len(ib) - 1)
             ELSE LET z == LeadZeros(r, d)
                      r1 == r * Pow2(z)
                  IN  RoundNearestEven(neg, FracBits(r1, d, FracChunks),
                                       FracRem(r1, d, FracChunks) # 0, -(z + 1))

\* binary digits times a small natural number, plus carry
RECURSIVE MulBits(_, _, _)
MulBits(bits, m, carry) ==
    IF bits = <<>> THEN IntBits(carry)
    ELSE LET k == IF Len(bits) < ChunkBits THEN Len(bits) ELSE ChunkBits
             low == SubSeq(bits, Len(bits) - k + 1, Len(bits))
             t == BitsInt(low) * m + carry
         IN  MulBits(SubSeq(bits, 1, Len(bits) - k), m, t \div Pow2(k))
                 \o Bits(t % Pow2(k), k)

\* x * m in double arithmetic, m a small natural number: the exact product
\* rounded to nearest
Times(x, m) ==
    IF x.nan THEN NaN
    ELSE IF x.mant = <<>> \/ m = 0 THEN Zero(x.neg)
    ELSE LET p == MulBits(x.mant, m, 0)
         IN  RoundNearestEven(x.neg, p, FALSE, x.exp + Len(p) - Len(x.mant))

\* x > 0
GtZero(x) == ~x.nan /\ ~x.neg /\ x.mant # <<>>

\* x is a whole number
IsInteger(x) ==
    /\ ~x.nan
    /\ \/ x.mant = <<>>
       \/ /\ x.exp >= 0
          /\ ~AnyOne(SubSeq(x.mant, x.exp + 2, Len(x.mant)))

\* the whole part of x's magnitude
Trunc(x) ==
    IF x.mant = <<>> \/ x.exp < 0 THEN 0
    ELSE BitsInt(SubSeq(x.mant, 1, x.exp + 1))

-----------------------------------------------------------------------------
(* Number(value): the StringNumericLiteral grammar over digits, '.', '+'   *)
(* and '-'.  Any other character makes the string no numeric literal.      *)

DigitChars == <<"0", "1", "2", "3", "4", "5", "6", "7", "8", "9">>
IsDigit(ch) == \E i \in 1..10 : DigitChars[i] = ch
DigitVal(ch) == (CHOOSE i \in 1..10 : DigitChars[i] = ch) - 1

RECURSIVE Pow10(_)
Pow10(k) == IF k = 0 THEN 1 ELSE 10 * Pow10(k - 1)

\* the natural number a sequence of decimal digit characters denotes
RECURSIVE DigitsInt(_)
DigitsInt(s) ==
    IF s = <<>> THEN 0 ELSE 10 * DigitsInt(Front(s)) + DigitVal(Last(s))

SelectDigits(s) == SelectSeq(s, IsDigit)
IsDot(ch) == ch = "."

\* digits [. digits] or . digits
IsUnsignedDecimal(u) ==
    /\ \A i \in 1..Len(u) : IsDigit(u[i]) \/ u[i] = "."
    /\ Len(SelectSeq(u, IsDot)) <= 1
    /\ SelectDigits(u) # <<>>

\* the digits after the decimal point
FractionDigits(u) ==
    IF \E i \in 1..Len(u) : u[i] = "."
    THEN Len(u) - (CHOOSE i \in 1..Len(u) : u[i] = ".")
    ELSE 0

\* Number(s) for a string s
StringToNumber(s) ==
    IF s = <<>> THEN Zero(FALSE)
    ELSE LET signed == s[1] \in {"-", "+"}
             neg == s[1] = "-"
             u == IF signed THEN SubSeq(s, 2, Len(s)) ELSE s
         IN  IF ~IsUnsignedDecimal(u) THEN NaN
             ELSE ToDouble(neg, DigitsInt(SelectDigits(u)), Pow10(FractionDigits(u)))

-----------------------------------------------------------------------------
(* Form data and the values the schema sees.                               *)

Null == [type |-> "null"]
Str(v) == [type |-> "string", value |-> v]

\* formData.get(name): the field's string, or null when the form lacks it
FormDataGet(fd, name) == IF name \in DOMAIN fd THEN Str(fd[name]) ELSE Null

Restrict(f, S) == [x \in S |-> f[x]]

InvoiceFields == {"customerId", "amount", "status"}
CustomerIdInputs == {"", "c1", "c2"}
AmountInputs ==
    { <<>>, <<"a", "b", "c">>, <<".">>, <<"0">>, <<"-", "0">>, <<"-", "5">>,
      <<"1", "0">>, <<".", "5">>, <<"4", "9", ".", "9", "9">>,
      <<"1", ".", "1", "5">> }
StatusInputs == {"", "draft", "pending", "paid"}

\* the forms a caller may submit: every field present or missing
InvoiceForms ==
    { Restrict([customerId |-> cu, amount |-> am, status |-> st], present) :
        cu \in CustomerIdInputs, am \in AmountInputs, st \in StatusInputs,
        present \in SUBSET InvoiceFields }

-----------------------------------------------------------------------------
(* FormSchema: the Zod schema of an invoice form.  An error message is the *)
(* sequence of the fragments it is concatenated from.                      *)

CustomerMessage == <<"Please select a customer.">>
AmountMessage == <<"Please enter an amount greater than $0.">>
StatusMessage == <<"Please select an invoice status.">>
\* Zod's own messages, used where the schema gives none
NanMessage == <<"Expected number, received nan">>
InvalidEnumMessage(received) ==
    <<"Invalid enum value. Expected 'pending' | 'paid', received '", received, "'">>

StatusOptions == {"pending", "paid"}

Valid(v) == [ok |-> TRUE, value |-> v, issues |-> <<>>]
Invalid(msg) == [ok |-> FALSE, value |-> Null, issues |-> <<msg>>]

\* z.string({ invalid_type_error })
ZString(input, invalid_type_error) ==
    IF input.type = "string" THEN Valid(input.value)
    ELSE Invalid(invalid_type_error)

\* Number(input), the coercion of z.coerce
CoerceNumber(input) ==
    IF input.type = "null" THEN Zero(FALSE) ELSE StringToNumber(input.value)

\* ZCoerceNumberGt with .gte(0) for .gt(0)
ZCoerceNumberGt_AcceptsZero(input, message) ==
    LET x == CoerceNumber(input)
    IN  IF x.nan THEN Invalid(NanMessage)
        ELSE IF x.neg THEN Invalid(message)
        ELSE Valid(x)

\* z.coerce.number().gt(0, { message })
ZCoerceNumberGt(input, message) ==
    LET x == CoerceNumber(input)
    IN  IF x.nan THEN Invalid(NanMessage)
        ELSE IF ~GtZero(x) THEN Invalid(message)
        ELSE Valid(x)

\* ZEnum as z.string(): any string passes
ZEnum_AnyString(input, options, invalid_type_error) ==
    IF input.type # "string" THEN Invalid(invalid_type_error)
    ELSE Valid(input.value)

\* z.enum(options, { invalid_type_error })
ZEnum(input, options, invalid_type_error) ==
    IF input.type # "string" THEN Invalid(invalid_type_error)
    ELSE IF input.value \notin options THEN Invalid(InvalidEnumMessage(input.value))
    ELSE Valid(input.value)

ParseCustomerId(input) == ZString(input, CustomerMessage)
ParseAmount(input) == ZCoerceNumberGt(input, AmountMessage)
ParseStatus(input) == ZEnum(input, StatusOptions, StatusMessage)

\* FormSchema.omit({ id, date }).safeParse(raw), with error.flatten().fieldErrors
SafeParse(raw) ==
    LET res == [customerId |-> ParseCustomerId(raw.customerId),
                amount |-> ParseAmount(raw.amount),
                status |-> ParseStatus(raw.status)]
        bad == {f \in InvoiceFields : ~res[f].ok}
    IN  IF bad = {}
        THEN [success |-> TRUE,
              data |-> [customerId |-> res.customerId.value,
                        amount |-> res.amount.value,
                        status |-> res.status.value],
              fieldErrors |-> [f \in {} |-> <<>>]]
        ELSE [success |-> FALSE, data |-> Null,
              fieldErrors |-> [f \in bad |-> res[f].issues]]

\* the object a server action hands to safeParse
RawInvoice(fd) ==
    [customerId |-> FormDataGet(fd, "customerId"),
     amount |-> FormDataGet(fd, "amount"),
     status |-> FormDataGet(fd, "status")]

\* amount * 100
AmountInCents(amount) == Times(amount, 100)

\* new Date().toISOString() at instant t, and its split('T')[0]
ToISOString(t) == [date |-> t \div TicksPerDay, time |-> t % TicksPerDay]
SplitT0(iso) == iso.date

InvoicesPath == "/dashboard/invoices"

-----------------------------------------------------------------------------
(* auth.ts: the credentials provider.                                      *)

\* bcrypt: the stored hash of a password, and bcrypt.compare
BcryptHash(password) == <<"$2b$10$">> \o password
BcryptCompare(password, hash) == BcryptHash(password) = hash

\* the users table (README: user@nextmail.com / 123456, here u@n.c)
Users ==
    { [email |-> <<"u", "@", "n", ".", "c">>,
       password |-> BcryptHash(<<"1", "2", "3", "4", "5", "6">>)] }

CredentialFields == {"email", "password"}
EmailInputs == { <<"u", "@", "n", ".", "c">>, <<"x", "@", "n", ".", "c">>, <<"u">> }
PasswordInputs ==
    { <<"1", "2", "3", "4", "5", "6">>, <<"6", "5", "4", "3", "2", "1">>,
      <<"1", "2", "3", "4", "5">> }
CredentialForms ==
    { Restrict([email |-> em, password |-> pw], present) :
        em \in EmailInputs, pw \in PasswordInputs,
        present \in SUBSET CredentialFields }

\* z.string().email(): local@domain with a dot inside the domain
IsEmail(s) ==
    \E i \in 2..Len(s) :
        /\ s[i] = "@"
        /\ \A j \in 1..Len(s) : s[j] = "@" => j = i
        /\ \E k \in (i + 2)..(Len(s) - 1) : s[k] = "."

\* the least length of a password
MinPasswordLen == 6

\* z.object({ email, password }).safeParse(credentials).success
CredentialsParse(fd) ==
    /\ "email" \in DOMAIN fd /\ IsEmail(fd.email)
    /\ "password" \in DOMAIN fd /\ Len(fd.password) >= MinPasswordLen

Error(type) == [class |-> "Error", type |-> type]
AuthError(type) == [class |-> "AuthError", type |-> type]

\* authorize(credentials); dbFails tells whether getUser's query raises
Authorize(fd, dbFails) ==
    IF ~CredentialsParse(fd) THEN [kind |-> "null"]
    ELSE IF dbFails THEN [kind |-> "throw", error |-> Error("Failed to fetch user.")]
    ELSE LET found == {u \in Users : u.email = fd.email}
         IN  IF found = {} THEN [kind |-> "null"]
             ELSE LET user == CHOOSE u \in found : TRUE
                  IN  IF BcryptCompare(fd.password, user.password)
                      THEN [kind |-> "user", user |-> user]
                      ELSE [kind |-> "null"]

\* what signIn('credentials', formData) does with authorize's answer: a user
\* signs in (signIn returns, or raises the framework's redirect signal), null
\* is a CredentialsSignin, an error raised inside authorize a CallbackRouteError
SignInOutcomes(fd, dbFails) ==
    LET a == Authorize(fd, dbFails)
    IN  IF a.kind = "user"
        THEN {[kind |-> "ok"], [kind |-> "error", error |-> Error("NEXT_REDIRECT")]}
        ELSE IF a.kind = "null"
        THEN {[kind |-> "error", error |-> AuthError("CredentialsSignin")]}
        ELSE {[kind |-> "error", error |-> AuthError("CallbackRouteError")]}

\* failures of signIn that do not come from authorize
OtherSignInErrors ==
    {AuthError("AccessDenied"), AuthError("MissingCSRF"), Error("TypeError")}

-----------------------------------------------------------------------------
(* The store and the calls in flight.                                      *)

Callers == {"a"}

NoForm == [x \in {} |-> <<>>]
NoStmt == [kind |-> "none"]
NoResponse == [kind |-> "none"]
NoResult == [kind |-> "none"]
Undefined == [type |-> "undefined"]

Return(value) == [kind |-> "return", value |-> value]
Throw(error) == [kind |-> "throw", error |-> error]
\* redirect(path) ends the action with the framework's navigation signal
RedirectSignal(path) == [kind |-> "redirect", path |-> path]

\* writeSeq records the position of the call's statement among the statements
\* the store has run (0: not run)
IdleCall ==
    [op |-> "none", pc |-> "idle", id |-> 0, fd |-> NoForm, stmt |-> NoStmt,
     response |-> NoResponse, result |-> NoResult, revalidated |-> <<>>,
     redirected |-> <<>>, fault |-> "none", invokedAt |-> 0, writeSeq |-> 0]

\* a call that has issued stmt and awaits its answer
Awaiting(op, id, fd, stmt) ==
    [IdleCall EXCEPT !.op = op, !.pc = "awaiting", !.id = id, !.fd = fd,
                     !.stmt = stmt, !.invokedAt = now]

\* a call that returned before issuing anything
Returned(op, id, fd, value) ==
    [IdleCall EXCEPT !.op = op, !.pc = "done", !.id = id, !.fd = fd,
                     !.result = Return(value), !.invokedAt = now]

\* the rows of the seeded table
SeedRow(i) ==
    [id |-> i, customer_id |-> "c1", amount |-> ToDouble(FALSE, 1000 * i, 1),
     status |-> "pending", date |-> 0]

Init ==
    /\ invoices = [i \in 1..NumSeed |-> SeedRow(i)]
    /\ nextId = NumSeed + 1
    /\ now = 0
    /\ calls = [c \in Callers |-> IdleCall]

\* a caller submits one request
CanInvoke(c) == calls[c].pc = "idle"

CreateMissingMessage == "Missing Fields. Failed to Create Invoice."
UpdateMissingMessage == "Missing Fields. Failed to Update Invoice."
CreateDbMessage == "Database Error: Failed to Create Invoice."
UpdateDbMessage == "Database Error: Failed to Update Invoice."
DeleteDbMessage == "Database Error: Failed to Delete Invoice."
DeletedMessage == "Deleted Invoice."

\* the INSERT statement of createInvoice
InsertStmt(data, t) ==
    [kind |-> "insert", customer_id |-> data.customerId,
     amount |-> AmountInCents(data.amount), status |-> data.status,
     date |-> SplitT0(ToISOString(t))]

\* the UPDATE statement of updateInvoice
UpdateStmt(data, id) ==
    [kind |-> "update", customer_id |-> data.customerId,
     amount |-> AmountInCents(data.amount), status |-> data.status, id |-> id]

\* the DELETE statement of deleteInvoice
DeleteStmt(id) == [kind |-> "delete", id |-> id]

\* createInvoice up to its await
CreateInvoiceCall(fd) ==
    LET validatedFields == SafeParse(RawInvoice(fd))
    IN  IF ~validatedFields.success
        THEN Returned("createInvoice", 0, fd,
                      [errors |-> validatedFields.fieldErrors,
                       message |-> CreateMissingMessage])
        ELSE Awaiting("createInvoice", 0, fd, InsertStmt(validatedFields.data, now))

\* updateInvoice up to its await
UpdateInvoiceCall(id, fd) ==
    LET validatedFields == SafeParse(RawInvoice(fd))
    IN  IF ~validatedFields.success
        THEN Returned("updateInvoice", id, fd,
                      [errors |-> validatedFields.fieldErrors,
                       message |-> UpdateMissingMessage])
        ELSE Awaiting("updateInvoice", id, fd, UpdateStmt(validatedFields.data, id))

InvokeCreate(c) ==
    /\ CanInvoke(c)
    /\ \E fd \in InvoiceForms : calls' = [calls EXCEPT ![c] = CreateInvoiceCall(fd)]
    /\ UNCHANGED <<invoices, nextId, now>>

InvokeUpdate(c) ==
    /\ CanInvoke(c)
    /\ \E id \in 1..MaxId, fd \in InvoiceForms :
          calls' = [calls EXCEPT ![c] = UpdateInvoiceCall(id, fd)]
    /\ UNCHANGED <<invoices, nextId, now>>

InvokeDelete(c) ==
    /\ CanInvoke(c)
    /\ \E id \in 1..MaxId :
          calls' = [calls EXCEPT ![c] =
                       Awaiting("deleteInvoice", id, NoForm, DeleteStmt(id))]
    /\ UNCHANGED <<invoices, nextId, now>>

InvokeAuthenticate(c) ==
    /\ CanInvoke(c)
    /\ \E fd \in CredentialForms :
          calls' = [calls EXCEPT ![c] =
                       Awaiting("authenticate", 0, fd, [kind |-> "signIn"])]
    /\ UNCHANGED <<invoices, nextId, now>>

\* Apply with an UPDATE that has lost its WHERE clause
Apply_UpdateEveryRow(table, stmt, newId) ==
    CASE stmt.kind = "insert" ->
           [i \in DOMAIN table \cup {newId} |->
               IF i = newId
               THEN [id |-> newId, customer_id |-> stmt.customer_id,
                     amount |-> stmt.amount, status |-> stmt.status,
                     date |-> stmt.date]
               ELSE table[i]]
      [] stmt.kind = "update" ->
           [i \in DOMAIN table |->
               [table[i] EXCEPT !.customer_id = stmt.customer_id,
                                !.amount = stmt.amount,
                                !.status = stmt.status]]
      [] stmt.kind = "delete" -> Restrict(table, DOMAIN table \ {stmt.id})

\* Apply with an UPDATE that leaves the status column out of its SET list
Apply_UpdateKeepsStatus(table, stmt, newId) ==
    CASE stmt.kind = "insert" ->
           [i \in DOMAIN table \cup {newId} |->
               IF i = newId
               THEN [id |-> newId, customer_id |-> stmt.customer_id,
                     amount |-> stmt.amount, status |-> stmt.status,
                     date |-> stmt.date]
               ELSE table[i]]
      [] stmt.kind = "update" ->
           [i \in DOMAIN table |->
               IF i = stmt.id
               THEN [table[i] EXCEPT !.customer_id = stmt.customer_id,
                                     !.amount = stmt.amount]
               ELSE table[i]]
      [] stmt.kind = "delete" -> Restrict(table, DOMAIN table \ {stmt.id})

\* the table after the store has run stmt; the store gives a new row the id
\* newId
Apply(table, stmt, newId) ==
    CASE stmt.kind = "insert" ->
           [i \in DOMAIN table \cup {newId} |->
               IF i = newId
               THEN [id |-> newId, customer_id |-> stmt.customer_id,
                     amount |-> stmt.amount, status |-> stmt.status,
                     date |-> stmt.date]
               ELSE table[i]]
      [] stmt.kind = "update" ->
           [i \in DOMAIN table |->
               IF i = stmt.id
               THEN [table[i] EXCEPT !.customer_id = stmt.customer_id,
                                     !.amount = stmt.amount,
                                     !.status = stmt.status]
               ELSE table[i]]
      [] stmt.kind = "delete" -> Restrict(table, DOMAIN table \ {stmt.id})

IsSql(stmt) == stmt.kind \in {"insert", "update", "delete"}

\* how many statements the store has run
StatementsRun == Cardinality({d \in DOMAIN calls : calls[d].writeSeq > 0})

\* the store runs the statement a call awaits
StoreExecute(c) ==
    /\ calls[c].pc = "awaiting"
    /\ IsSql(calls[c].stmt)
    /\ calls[c].stmt.kind = "insert" => nextId <= MaxId
    /\ invoices' = Apply(invoices, calls[c].stmt, nextId)
    /\ nextId' = IF calls[c].stmt.kind = "insert" THEN nextId + 1 ELSE nextId
    /\ calls' = [calls EXCEPT ![c].pc = "settled", ![c].response = [kind |-> "ok"],
                              ![c].writeSeq = StatementsRun + 1]
    /\ UNCHANGED now

\* the store raises on the statement a call awaits
StoreRaise(c) ==
    /\ calls[c].pc = "awaiting"
    /\ IsSql(calls[c].stmt)
    /\ calls' = [calls EXCEPT ![c].pc = "settled",
                              ![c].response = [kind |-> "error", error |-> Error("store")]]
    /\ UNCHANGED <<invoices, nextId, now>>

\* signIn settles as authorize decides
SignInSettle(c) ==
    /\ calls[c].pc = "awaiting"
    /\ calls[c].stmt.kind = "signIn"
    /\ \E dbFails \in BOOLEAN :
         \E out \in SignInOutcomes(calls[c].fd, dbFails) :
          calls' = [calls EXCEPT ![c].pc = "settled", ![c].response = out]
    /\ UNCHANGED <<invoices, nextId, now>>

\* signIn fails for a reason of its own
SignInFails(c) ==
    /\ calls[c].pc = "awaiting"
    /\ calls[c].stmt.kind = "signIn"
    /\ \E e \in OtherSignInErrors :
          calls' = [calls EXCEPT ![c].pc = "settled",
                                 ![c].response = [kind |-> "error", error |-> e]]
    /\ UNCHANGED <<invoices, nextId, now>>

\* a call finished with result, having invalidated and redirected as given
Finish(call, result, revalidated, redirected) ==
    [call EXCEPT !.pc = "done", !.result = result,
                 !.revalidated = revalidated, !.redirected = redirected]

\* AfterWrite with the invalidation and the redirect issued before the store's
\* answer is looked at
AfterWrite_RevalidateFirst(call, dbMessage) ==
    IF call.response.kind = "error"
    THEN Finish(call, Return([message |-> dbMessage]), <<InvoicesPath>>, <<>>)
    ELSE Finish(call, RedirectSignal(InvoicesPath), <<InvoicesPath>>, <<InvoicesPath>>)

\* createInvoice and updateInvoice after the await
AfterWrite(call, dbMessage) ==
    IF call.response.kind = "error"
    THEN Finish(call, Return([message |-> dbMessage]), <<>>, <<>>)
    ELSE Finish(call, RedirectSignal(InvoicesPath), <<InvoicesPath>>, <<InvoicesPath>>)

\* AfterDelete without the catch block: the store's error leaves the action
AfterDelete_NoCatch(call) ==
    IF call.response.kind = "error"
    THEN Finish(call, Throw(call.response.error), <<>>, <<>>)
    ELSE Finish(call, Return([message |-> DeletedMessage]), <<InvoicesPath>>, <<>>)

\* AfterDelete ending like createInvoice, with a redirect
AfterDelete_Redirects(call) ==
    IF call.response.kind = "error"
    THEN Finish(call, Return([message |-> DeleteDbMessage]), <<>>, <<>>)
    ELSE Finish(call, RedirectSignal(InvoicesPath), <<InvoicesPath>>, <<InvoicesPath>>)

\* deleteInvoice after the await
AfterDelete(call) ==
    IF call.response.kind = "error"
    THEN Finish(call, Return([message |-> DeleteDbMessage]), <<>>, <<>>)
    ELSE Finish(call, Return([message |-> DeletedMessage]), <<InvoicesPath>>, <<>>)

\* AfterSignIn with a catch block that swallows every error
AfterSignIn_CatchAll(call) ==
    IF call.response.kind = "ok" THEN Finish(call, Return(Undefined), <<>>, <<>>)
    ELSE LET error == call.response.error
         IN  IF error.class = "AuthError" /\ error.type = "CredentialsSignin"
             THEN Finish(call, Return(Str("Invalid credentials.")), <<>>, <<>>)
             ELSE Finish(call, Return(Str("Something went wrong.")), <<>>, <<>>)

\* authenticate after the await
AfterSignIn(call) ==
    IF call.response.kind = "ok" THEN Finish(call, Return(Undefined), <<>>, <<>>)
    ELSE LET error == call.response.error
         IN  IF error.class = "AuthError"
             THEN IF error.type = "CredentialsSignin"
                  THEN Finish(call, Return(Str("Invalid credentials.")), <<>>, <<>>)
                  ELSE Finish(call, Return(Str("Something went wrong.")), <<>>, <<>>)
             ELSE Finish(call, Throw(error), <<>>, <<>>)

Settled(c, op) == calls[c].pc = "settled" /\ calls[c].op = op

ResumeCreate(c) ==
    /\ Settled(c, "createInvoice")
    /\ calls' = [calls EXCEPT ![c] = AfterWrite(calls[c], CreateDbMessage)]
    /\ UNCHANGED <<invoices, nextId, now>>

ResumeUpdate(c) ==
    /\ Settled(c, "updateInvoice")
    /\ calls' = [calls EXCEPT ![c] = AfterWrite(calls[c], UpdateDbMessage)]
    /\ UNCHANGED <<invoices, nextId, now>>

ResumeDelete(c) ==
    /\ Settled(c, "deleteInvoice")
    /\ calls' = [calls EXCEPT ![c] = AfterDelete(calls[c])]
    /\ UNCHANGED <<invoices, nextId, now>>

ResumeAuthenticate(c) ==
    /\ Settled(c, "authenticate")
    /\ calls' = [calls EXCEPT ![c] = AfterSignIn(calls[c])]
    /\ UNCHANGED <<invoices, nextId, now>>

\* time passes
Tick ==
    /\ now < MaxNow
    /\ now' = now + 1
    /\ UNCHANGED <<invoices, nextId, calls>>

Next ==
    \/ \E c \in Callers : InvokeCreate(c)
    \/ \E c \in Callers : InvokeUpdate(c)
    \/ \E c \in Callers : InvokeDelete(c)
    \/ \E c \in Callers : InvokeAuthenticate(c)
    \/ \E c \in Callers : StoreExecute(c)
    \/ \E c \in Callers : StoreRaise(c)
    \/ \E c \in Callers : SignInSettle(c)
    \/ \E c \in Callers : SignInFails(c)
    \/ \E c \in Callers : ResumeCreate(c)
    \/ \E c \in Callers : ResumeUpdate(c)
    \/ \E c \in Callers : ResumeDelete(c)
    \/ \E c \in Callers : ResumeAuthenticate(c)
    \/ Tick

Spec == Init /\ [][Next]_vars

-----------------------------------------------------------------------------
(* The same program when revalidatePath itself may raise.                  *)

\* createInvoice and updateInvoice after the await, revalidatePath raising:
\* the error leaves the action, redirect is not reached
AfterWriteRevalidateRaises(call) ==
    [Finish(call, Throw(Error("revalidatePath")), <<InvoicesPath>>, <<>>)
        EXCEPT !.fault = "revalidatePath"]

\* deleteInvoice after the await, revalidatePath raising inside the try block
AfterDeleteRevalidateRaises(call) ==
    [Finish(call, Return([message |-> DeleteDbMessage]), <<InvoicesPath>>, <<>>)
        EXCEPT !.fault = "revalidatePath"]

Written(c, op) == Settled(c, op) /\ calls[c].response.kind = "ok"

ResumeCreateRevalidateRaises(c) ==
    /\ Written(c, "createInvoice")
    /\ calls' = [calls EXCEPT ![c] = AfterWriteRevalidateRaises(calls[c])]
    /\ UNCHANGED <<invoices, nextId, now>>

ResumeUpdateRevalidateRaises(c) ==
    /\ Written(c, "updateInvoice")
    /\ calls' = [calls EXCEPT ![c] = AfterWriteRevalidateRaises(calls[c])]
    /\ UNCHANGED <<invoices, nextId, now>>

ResumeDeleteRevalidateRaises(c) ==
    /\ Written(c, "deleteInvoice")
    /\ calls' = [calls EXCEPT ![c] = AfterDeleteRevalidateRaises(calls[c])]
    /\ UNCHANGED <<invoices, nextId, now>>

NextInval ==
    \/ Next
    \/ \E c \in Callers : ResumeCreateRevalidateRaises(c)
    \/ \E c \in Callers : ResumeUpdateRevalidateRaises(c)
    \/ \E c \in Callers : ResumeDeleteRevalidateRaises(c)

SpecInval == Init /\ [][NextInval]_vars

-----------------------------------------------------------------------------
(* Two requests in flight at once: each request is its own invocation of    *)
(* updateInvoice, the two share nothing but the store.                      *)

ConcCallers == {"a", "b"}

InitConc ==
    /\ invoices = [i \in 1..NumSeed |-> SeedRow(i)]
    /\ nextId = NumSeed + 1
    /\ now = 0
    /\ calls = [c \in ConcCallers |-> IdleCall]

\* the forms that pass updateInvoice's validation
ValidInvoiceForms == {fd \in InvoiceForms : SafeParse(RawInvoice(fd)).success}

\* the id the requests already made are about
SameInvoice(id) == \A d \in DOMAIN calls : calls[d].pc # "idle" => calls[d].id = id

\* a caller submits a valid update of the invoice the other caller updates
InvokeUpdateSameInvoice(c) ==
    /\ CanInvoke(c)
    /\ \E id \in DOMAIN invoices, fd \in ValidInvoiceForms :
          /\ SameInvoice(id)
          /\ calls' = [calls EXCEPT ![c] = UpdateInvoiceCall(id, fd)]
    /\ UNCHANGED <<invoices, nextId, now>>

NextConc ==
    \/ \E c \in ConcCallers : InvokeUpdateSameInvoice(c)
    \/ \E c \in ConcCallers : StoreExecute(c)
    \/ \E c \in ConcCallers : StoreRaise(c)
    \/ \E c \in ConcCallers : ResumeUpdate(c)

\* the store answers every statement it is sent, and the runtime resumes a
\* request whose await has settled
FairConc ==
    /\ WF_vars(\E c \in ConcCallers : StoreExecute(c) \/ StoreRaise(c))
    /\ WF_vars(\E c \in ConcCallers : ResumeUpdate(c))

SpecConc == InitConc /\ [][NextConc]_vars /\ FairConc

-----------------------------------------------------------------------------
(* Properties.                                                             *)

IsWrite(call) == call.op \in {"createInvoice", "updateInvoice"}
IsMutation(call) == call.op \in {"createInvoice", "updateInvoice", "deleteInvoice"}
Done(call) == call.pc = "done"

\* a create or update whose validation passed and whose store write succeeded
WriteSucceeded(call) ==
    /\ IsWrite(call)
    /\ SafeParse(RawInvoice(call.fd)).success
    /\ call.response.kind = "ok"

\* a create or update whose validation failed or whose store write raised
WriteFailed(call) ==
    /\ IsWrite(call)
    /\ \/ ~SafeParse(RawInvoice(call.fd)).success
       \/ call.response.kind = "error"

\* C1: a finished createInvoice or updateInvoice that succeeded has issued
\* exactly one invalidation of /dashboard/invoices and exactly one redirect to
\* /dashboard/invoices; one that failed (validation or store) has issued
\* neither.
C1_WriteInvalidatesAndRedirectsOnce ==
    \A c \in Callers :
        LET call == calls[c]
        IN  /\ (Done(call) /\ WriteSucceeded(call)) =>
                  /\ call.revalidated = <<InvoicesPath>>
                  /\ call.redirected = <<InvoicesPath>>
                  /\ call.result = RedirectSignal(InvoicesPath)
            /\ (Done(call) /\ WriteFailed(call)) =>
                  /\ call.revalidated = <<>>
                  /\ call.redirected = <<>>
                  /\ call.result.kind = "return"

C1_Witness ==
    \E c \in Callers :
        /\ Done(calls[c]) /\ WriteSucceeded(calls[c])
        /\ calls[c].op = "updateInvoice"
        /\ calls[c].redirected = <<InvoicesPath>>

DbMessage(op) ==
    CASE op = "createInvoice" -> CreateDbMessage
      [] op = "updateInvoice" -> UpdateDbMessage
      [] op = "deleteInvoice" -> DeleteDbMessage

\* C2: when the store raises on the statement of createInvoice, updateInvoice
\* or deleteInvoice, the action returns (does not raise) exactly the fixed
\* message of that operation, and issues no invalidation and no redirect.
C2_StoreErrorReturnsFixedMessage ==
    \A c \in Callers :
        LET call == calls[c]
        IN  (Done(call) /\ IsMutation(call) /\ call.response.kind = "error") =>
                /\ call.result = Return([message |-> DbMessage(call.op)])
                /\ call.revalidated = <<>>
                /\ call.redirected = <<>>

C2_Witness ==
    \E c \in Callers :
        /\ Done(calls[c]) /\ calls[c].op = "deleteInvoice"
        /\ calls[c].response.kind = "error"
        /\ calls[c].result = Return([message |-> DeleteDbMessage])

\* C8: a finished deleteInvoice whose DELETE did not raise, whether or not a
\* row had the id, has issued exactly one invalidation of /dashboard/invoices
\* and no redirect.
C8_DeleteInvalidatesOnceNoRedirect ==
    \A c \in Callers :
        LET call == calls[c]
        IN  (Done(call) /\ call.op = "deleteInvoice" /\ call.response.kind = "ok") =>
                /\ call.revalidated = <<InvoicesPath>>
                /\ call.redirected = <<>>
                /\ call.result.kind # "redirect"

\* a delete of an id no row has, finished
C8_Witness ==
    \E c \in Callers :
        /\ Done(calls[c]) /\ calls[c].op = "deleteInvoice"
        /\ calls[c].response.kind = "ok"
        /\ calls[c].id \notin 1..NumSeed
        /\ DOMAIN invoices = 1..NumSeed
        /\ calls[c].revalidated = <<InvoicesPath>>

\* the messages a finished call returned for a field (none: <<>>)
FieldErrors(call, field) ==
    IF /\ call.result.kind = "return"
       /\ "errors" \in DOMAIN call.result.value
       /\ field \in DOMAIN call.result.value.errors
    THEN call.result.value.errors[field]
    ELSE <<>>

\* the call ended in validation: a returned failure, nothing sent to the store
RejectedWith(call, field, messages) ==
    /\ Done(call)
    /\ call.result.kind = "return"
    /\ FieldErrors(call, field) = messages
    /\ call.stmt = NoStmt
    /\ call.response = NoResponse

HasField(call, field) == field \in DOMAIN call.fd

\* C3 as stated: every submitted amount string that is not a positive number,
\* the empty and the non-numeric ones included, is rejected with the amount
\* error 'Please enter an amount greater than $0.' and nothing is persisted.
C3_Original ==
    \A c \in Callers :
        LET call == calls[c]
        IN  (IsWrite(call) /\ HasField(call, "amount")
                /\ ~GtZero(StringToNumber(call.fd.amount))) =>
                RejectedWith(call, "amount", <<AmountMessage>>)

\* C3 amended: an amount string that is a number <= 0, the empty string
\* included (it coerces to 0), is rejected with the amount error 'Please
\* enter an amount greater than $0.'; a non-numeric string coerces to NaN and
\* is rejected with Zod's type error 'Expected number, received nan'; in both
\* cases nothing is persisted.
C3_NonPositiveAmountRejected ==
    \A c \in Callers :
        LET call == calls[c]
        IN  (IsWrite(call) /\ HasField(call, "amount")) =>
                LET x == StringToNumber(call.fd.amount)
                IN  /\ (~x.nan /\ ~GtZero(x)) =>
                          RejectedWith(call, "amount", <<AmountMessage>>)
                    /\ x.nan => RejectedWith(call, "amount", <<NanMessage>>)

\* an update submitted with the amount "-5", rejected
C3_Witness ==
    \E c \in Callers :
        /\ calls[c].op = "updateInvoice"
        /\ HasField(calls[c], "amount") /\ calls[c].fd.amount = <<"-", "5">>
        /\ RejectedWith(calls[c], "amount", <<AmountMessage>>)

\* C4: a createInvoice submitted with the empty string as customerId and
\* otherwise valid fields is rejected with errors.customerId = ['Please
\* select a customer.'] and nothing is persisted.
C4_EmptyCustomerRejected ==
    \A c \in Callers :
        LET call == calls[c]
        IN  (/\ call.op = "createInvoice"
             /\ HasField(call, "customerId") /\ call.fd.customerId = ""
             /\ HasField(call, "amount") /\ GtZero(StringToNumber(call.fd.amount))
             /\ HasField(call, "status") /\ call.fd.status \in StatusOptions) =>
                RejectedWith(call, "customerId", <<CustomerMessage>>)

\* C5 as stated: every status other than 'pending' and 'paid' (absent, empty
\* or another string) is rejected with the status error 'Please select an
\* invoice status.' and nothing is persisted.
C5_Original ==
    \A c \in Callers :
        LET call == calls[c]
        IN  (IsWrite(call)
                /\ (HasField(call, "status") => call.fd.status \notin StatusOptions)) =>
                RejectedWith(call, "status", <<StatusMessage>>)

\* C5 amended: every status other than 'pending' and 'paid' is rejected and
\* nothing is persisted; the status error is 'Please select an invoice
\* status.' when the status is absent, and Zod's own "Invalid enum value.
\* Expected 'pending' | 'paid', received '<status>'" when it is a string
\* outside the enumeration, the empty string included.
C5_InvalidStatusRejected ==
    \A c \in Callers :
        LET call == calls[c]
        IN  IsWrite(call) =>
                /\ ~HasField(call, "status") =>
                      RejectedWith(call, "status", <<StatusMessage>>)
                /\ (HasField(call, "status") /\ call.fd.status \notin StatusOptions) =>
                      RejectedWith(call, "status",
                                   <<InvalidEnumMessage(call.fd.status)>>)

\* an update submitted with the status "draft", rejected
C5_Witness ==
    \E c \in Callers :
        /\ calls[c].op = "updateInvoice"
        /\ HasField(calls[c], "status") /\ calls[c].fd.status = "draft"
        /\ RejectedWith(calls[c], "status", <<InvalidEnumMessage("draft")>>)

\* round(major * 100) of a decimal string, in exact arithmetic
RoundedCents(s) ==
    LET u == IF s[1] \in {"-", "+"} THEN SubSeq(s, 2, Len(s)) ELSE s
        n == DigitsInt(SelectDigits(u))
        d == Pow10(FractionDigits(u))
    IN  (200 * n + d) \div (2 * d)

\* C6: the amount a createInvoice or updateInvoice writes to the store is a
\* whole number of cents, equal to round(major * 100).
C6_AmountInCentsIsRounded ==
    \A c \in Callers :
        LET call == calls[c]
        IN  (IsWrite(call) /\ call.response.kind = "ok") =>
                /\ IsInteger(call.stmt.amount)
                /\ Trunc(call.stmt.amount) = RoundedCents(call.fd.amount)

\* the calendar day of an instant
DayOf(t) == t \div TicksPerDay

\* the store runs the statement of c's call of op in this step
StoreRuns(c, op) ==
    /\ calls[c].op = op
    /\ calls[c].pc = "awaiting"
    /\ calls'[c].pc = "settled"
    /\ calls'[c].response.kind = "ok"

\* C7: the row createInvoice stores carries the date of the day createInvoice
\* ran, and no other row changes; updateInvoice changes customer_id, amount
\* and status of the row with the given id, leaves that row's id and date as
\* they were, and changes no other row.
C7_CreateStampsDateUpdateKeepsIt ==
    [][\A c \in Callers :
          /\ StoreRuns(c, "createInvoice") =>
                LET new == DOMAIN invoices' \ DOMAIN invoices
                IN  /\ Cardinality(new) = 1
                    /\ \A i \in new :
                          /\ invoices'[i].date = DayOf(calls[c].invokedAt)
                          /\ invoices'[i].id = i
                    /\ \A i \in DOMAIN invoices :
                          i \in DOMAIN invoices' /\ invoices'[i] = invoices[i]
          /\ StoreRuns(c, "updateInvoice") =>
                /\ DOMAIN invoices' = DOMAIN invoices
                /\ \A i \in DOMAIN invoices :
                      IF i = calls[c].id
                      THEN /\ invoices'[i].id = invoices[i].id
                           /\ invoices'[i].date = invoices[i].date
                           /\ invoices'[i].customer_id = calls[c].stmt.customer_id
                           /\ invoices'[i].amount = calls[c].stmt.amount
                           /\ invoices'[i].status = calls[c].stmt.status
                      ELSE invoices'[i] = invoices[i]
      ]_vars

\* an update of a seeded row, run by the store on a later day: the row has the
\* new customer and status and its old date, the other seeded row is as it was
C7_Witness ==
    \E c \in Callers :
        /\ calls[c].op = "updateInvoice" /\ calls[c].pc = "settled"
        /\ calls[c].response.kind = "ok"
        /\ calls[c].id = 1
        /\ DayOf(now) > 0
        /\ invoices[1].customer_id = "c2" /\ invoices[1].status = "paid"
        /\ invoices[1].date = 0
        /\ invoices[2] = SeedRow(2)

\* C9: authenticate returns 'Invalid credentials.' when signIn raises an
\* AuthError of type CredentialsSignin, 'Something went wrong.' when it raises
\* an AuthError of another type, raises the same error when signIn raises
\* anything else, and returns no message when signIn succeeds.
C9_AuthenticateMapsErrors ==
    \A c \in Callers :
        LET call == calls[c]
        IN  (Done(call) /\ call.op = "authenticate") =>
                IF call.response.kind = "ok" THEN call.result = Return(Undefined)
                ELSE IF call.response.error.class = "AuthError"
                THEN IF call.response.error.type = "CredentialsSignin"
                     THEN call.result = Return(Str("Invalid credentials."))
                     ELSE call.result = Return(Str("Something went wrong."))
                ELSE call.result = Throw(call.response.error)

\* a sign-in with a registered e-mail and a wrong password, answered
C9_Witness ==
    \E c \in Callers :
        /\ Done(calls[c]) /\ calls[c].op = "authenticate"
        /\ calls[c].fd = [email |-> <<"u", "@", "n", ".", "c">>,
                          password |-> <<"6", "5", "4", "3", "2", "1">>]
        /\ calls[c].response = [kind |-> "error",
                                error |-> AuthError("CredentialsSignin")]
        /\ calls[c].result = Return(Str("Invalid credentials."))

FailureMessages ==
    {CreateDbMessage, UpdateDbMessage, DeleteDbMessage,
     CreateMissingMessage, UpdateMissingMessage}

\* C10: createInvoice, updateInvoice and deleteInvoice invalidate only after
\* the store has confirmed the write, and when the invalidation itself raises
\* after a successful write, no error leaves the action and no failure message
\* is returned.
C10_InvalidationFailureNotSurfaced ==
    \A c \in Callers :
        LET call == calls[c]
        IN  IsMutation(call) =>
                /\ call.revalidated # <<>> => call.response.kind = "ok"
                /\ (Done(call) /\ call.fault = "revalidatePath") =>
                      /\ call.result.kind # "throw"
                      /\ call.result.kind = "return" =>
                            call.result.value.message \notin FailureMessages

\* the updates of invoice id whose statement the store has run
WritersOf(id) ==
    {c \in DOMAIN calls : /\ calls[c].op = "updateInvoice"
                          /\ calls[c].id = id
                          /\ calls[c].writeSeq > 0}

\* the update of invoice id whose statement the store ran last
LastWriter(id) ==
    CHOOSE c \in WritersOf(id) :
        \A d \in WritersOf(id) : calls[d].writeSeq <= calls[c].writeSeq

\* customer_id, amount and status of row are those of the statement stmt
TakenFrom(row, stmt) ==
    /\ row.customer_id = stmt.customer_id
    /\ row.amount = stmt.amount
    /\ row.status = stmt.status

\* every written invoice carries the three fields of its last writer
RowsFromLastWriter ==
    \A id \in DOMAIN invoices :
        WritersOf(id) # {} => TakenFrom(invoices[id], calls[LastWriter(id)].stmt)

\* an update the store has run does not end otherwise than by the redirect
WrittenEndsInSuccess ==
    \A c \in DOMAIN calls :
        (Done(calls[c]) /\ calls[c].writeSeq > 0)
            => calls[c].result = RedirectSignal(InvoicesPath)

\* the store has run the statements of both updates
BothWritten == \A c \in DOMAIN calls : calls[c].writeSeq > 0

\* both updates have ended by the redirect
BothSucceeded ==
    \A c \in DOMAIN calls :
        Done(calls[c]) /\ calls[c].result = RedirectSignal(InvoicesPath)

\* C11: two valid updateInvoice calls in flight against the same invoice id:
\* whatever the interleaving, at every moment the stored row has customer_id,
\* amount and status all of the one update whose statement the store ran last
\* (never a mix of the two), an update whose statement was run ends only by
\* the success outcome, and once the store has run both statements both
\* calls do end with it.
C11_LastWriteWins ==
    /\ [](RowsFromLastWriter /\ WrittenEndsInSuccess)
    /\ (BothWritten ~> (BothSucceeded /\ RowsFromLastWriter))

\* both updates succeeded, they disagree on every field, the one invoked
\* with status "paid" was written first, and the row is the other's
C11_Witness ==
    /\ DOMAIN calls = ConcCallers
    /\ BothSucceeded
    /\ \E id \in DOMAIN invoices :
         \E first \in WritersOf(id), last \in WritersOf(id) :
            /\ calls[first].writeSeq = 1
            /\ calls[last].writeSeq = 2
            /\ calls[first].stmt.customer_id # calls[last].stmt.customer_id
            /\ calls[first].stmt.amount # calls[last].stmt.amount
            /\ calls[first].stmt.status = "paid"
            /\ calls[last].stmt.status = "pending"
            /\ TakenFrom(invoices[id], calls[last].stmt)

====
